---- MODULE Spec2Model ----
(***************************************************************************)
(* A model of byteranges-rs: the response classifier (part_description),   *)
(* the multipart scanner (Parts::new / Parts::next) and the sparse         *)
(* reconstructor (make_sparse_body with read and seek), and the request    *)
(* builder (HttpRange, RangeHeader).                                       *)
(*                                                                         *)
(* Strings and byte buffers are sequences of one-character strings.        *)
(* Rust's Option is a sequence of length 0 (None) or 1 (Some).             *)
(* All positions in the model are 0-based, as in the source; Slice(s,a,b)  *)
(* is the Rust slice s[a..b].                                              *)
(***************************************************************************)
EXTENDS Integers, Sequences, FiniteSets, TLC

VARIABLES
    resp,        \* classifier: the response handed to part_description
    cls,         \* classifier: what part_description returned (<<>> before the call)
    body,        \* Parts.body
    part_desc,   \* Parts.part_desc
    is_done,     \* Parts.is_done
    next_start,  \* Parts.next_start
    ppc,         \* scanner: "fresh" (before Parts::new), "ready", "panicked"
    out,         \* scanner: the elements next() has returned so far, in call order
    end_at,      \* scanner (history): -1, or how many next() calls had returned when the
                 \* call that first met a boundary followed by "--" ended
    src,         \* the input under test: the recipe of a multipart body (scanner),
                 \* or the full body or parts given to the reconstructor
    sb,          \* reconstructor: the SparseBody (<<>> before it is built)
    last,        \* reconstructor: the last read or seek call and its outcome
    req          \* request builder: the RangeHeader, the specs appended to it so far
                 \* (history) and the last conversion of range bounds (<<>> when idle)

vars == <<resp, cls, body, part_desc, is_done, next_start, ppc, out, end_at, src, sb, last,
          req>>

None == <<>>
Some(x) == <<x>>

\* ------------------------------------------------------------------ bounds

\* Longest boundary token X of a Content-Type `boundary=X` parameter.
MaxTokenLen == 2
\* Most parts handed to make_sparse_body.
MaxParts == 2
\* Largest last_byte of a part's Content-Range.
MaxLast == 2
\* Largest buffer handed to one read call.
MaxBuf == 3
\* Largest distance of one seek call.
MaxSeek == 2
\* Seeks that would move the position past this offset are not followed.
MaxPosition == 6
\* Most range specs appended to one RangeHeader.
MaxRanges == 3
\* The width in bits the u64 arithmetic of the request builder is carried out at.
WordBits == 5

\* ----------------------------------------------------------- byte strings

Min(a, b) == IF a < b THEN a ELSE b
Max(a, b) == IF a > b THEN a ELSE b

\* The Rust slice s[a..b] of a 0-indexed buffer (callers check the range).
Slice(s, a, b) == SubSeq(s, a + 1, b)

\* s[a..]
SliceFrom(s, a) == SubSeq(s, a + 1, Len(s))

starts_with(s, p) == Len(s) >= Len(p) /\ SubSeq(s, 1, Len(p)) = p

RECURSIVE trim_start_matches(_, _)
trim_start_matches(s, cs) ==
    IF s # <<>> /\ Head(s) \in cs THEN trim_start_matches(Tail(s), cs) ELSE s

RECURSIVE trim_end_matches(_, _)
trim_end_matches(s, cs) ==
    IF s # <<>> /\ s[Len(s)] \in cs
    THEN trim_end_matches(SubSeq(s, 1, Len(s) - 1), cs)
    ELSE s

Whitespace == {" ", "\t"}

trim_start(s) == trim_start_matches(s, Whitespace)
trim(s) == trim_end_matches(trim_start_matches(s, Whitespace), Whitespace)
trim_matches(s, c) == trim_end_matches(trim_start_matches(s, {c}), {c})

Digits == {"0", "1", "2", "3", "4", "5", "6", "7", "8", "9"}

DigitVal(c) ==
    CASE c = "0" -> 0 [] c = "1" -> 1 [] c = "2" -> 2 [] c = "3" -> 3
      [] c = "4" -> 4 [] c = "5" -> 5 [] c = "6" -> 6 [] c = "7" -> 7
      [] c = "8" -> 8 [] c = "9" -> 9

RECURSIVE ParseNat(_)
ParseNat(s) ==
    IF s = <<>> THEN 0 ELSE 10 * ParseNat(SubSeq(s, 1, Len(s) - 1)) + DigitVal(s[Len(s)])

IsNat(s) == s # <<>> /\ \A i \in 1..Len(s) : s[i] \in Digits

\* Index (1-based) of the first occurrence of c in s, 0 when there is none.
RECURSIVE IndexOfFrom(_, _, _)
IndexOfFrom(s, c, i) ==
    IF i > Len(s) THEN 0
    ELSE IF s[i] = c THEN i
    ELSE IndexOfFrom(s, c, i + 1)

IndexOf(s, c) == IndexOfFrom(s, c, 1)

\* ---------------------------------------------------------- ContentRange

\* http_content_range::ContentRange, the four variants.
CRBytes(f, l, c) == [kind |-> "Bytes", first_byte |-> f, last_byte |-> l, complete_length |-> c]
CRUnbound(f, l) == [kind |-> "UnboundBytes", first_byte |-> f, last_byte |-> l, complete_length |-> 0]
CRUnsatisfied(c) == [kind |-> "Unsatisfied", first_byte |-> 0, last_byte |-> 0, complete_length |-> c]
CRUnknown == [kind |-> "Unknown", first_byte |-> 0, last_byte |-> 0, complete_length |-> 0]

BytesPrefix == <<"b", "y", "t", "e", "s", " ">>

\* ContentRange::parse_bytes of the http_content_range crate:
\*   bytes <first>-<last>/<complete>   Bytes
\*   bytes <first>-<last>/*            UnboundBytes
\*   bytes */<complete>                Unsatisfied
\*   anything else                     Unknown
ContentRange_parse(h) ==
    IF ~starts_with(h, BytesPrefix) THEN CRUnknown
    ELSE LET r == SliceFrom(h, Len(BytesPrefix))
             sl == IndexOf(r, "/")
         IN  IF sl = 0 THEN CRUnknown
             ELSE LET range == SubSeq(r, 1, sl - 1)
                      size == SubSeq(r, sl + 1, Len(r))
                      da == IndexOf(range, "-")
                  IN  IF range = <<"*">>
                      THEN IF IsNat(size) THEN CRUnsatisfied(ParseNat(size)) ELSE CRUnknown
                      ELSE IF da = 0 THEN CRUnknown
                      ELSE LET f == SubSeq(range, 1, da - 1)
                               l == SubSeq(range, da + 1, Len(range))
                           IN  IF ~(IsNat(f) /\ IsNat(l)) THEN CRUnknown
                               ELSE IF size = <<"*">>
                               THEN CRUnbound(ParseNat(f), ParseNat(l))
                               ELSE IF IsNat(size)
                               THEN CRBytes(ParseNat(f), ParseNat(l), ParseNat(size))
                               ELSE CRUnknown

\* ------------------------------------------------------------ classifier

BYTERANGES ==
    <<"m", "u", "l", "t", "i", "p", "a", "r", "t", "/",
      "b", "y", "t", "e", "r", "a", "n", "g", "e", "s">>

ClsErr(e, n) == [tag |-> "Err", err |-> e, status |-> n, raw |-> <<>>, kind |-> "",
                 boundary |-> <<>>, content_range |-> CRUnknown, content_type |-> <<>>]
\* PartialHeaderParseError::ContentRangeParse(cr_s.to_owned())
ClsErrParse(cr_s) == [ClsErr("ContentRangeParse", 0) EXCEPT !.raw = cr_s]
ClsMulti(b) == [tag |-> "Ok", err |-> "", status |-> 0, raw |-> <<>>, kind |-> "Multi",
                boundary |-> b, content_range |-> CRUnknown, content_type |-> <<>>]
ClsSingle(cr, ct) == [tag |-> "Ok", err |-> "", status |-> 0, raw |-> <<>>, kind |-> "Single",
                      boundary |-> <<>>, content_range |-> cr, content_type |-> ct]
ClsPanic == [tag |-> "Panic", err |-> "", status |-> 0, raw |-> <<>>, kind |-> "",
             boundary |-> <<>>, content_range |-> CRUnknown, content_type |-> <<>>]

\* The implementors of MaybePartialResponse: http::Response, reqwest's blocking
\* Response and the DummyResponse of the tests.
Adapters == {"http", "reqwest", "test"}

\* status_code(), the same in every implementor.
status_code(r) == r.status

\* content_type_str(): the value of the Content-Type header, in every implementor.
content_type_str(r) == r.content_type

\* content_range_str(): http_impl looks up "Content-Type", the other two
\* implementors "Content-Range".
content_range_str(r) ==
    IF r.adapter = "http" THEN r.content_type ELSE r.content_range

\* The boundary of a multipart content type s (already trimmed, starting with
\* BYTERANGES): s[..BYTERANGES.len() + 1].trim_start()[9..], unquoted, after "--".
\* Slicing past the end of s panics.
multi_boundary(s) ==
    IF Len(s) < Len(BYTERANGES) + 1 THEN ClsPanic
    ELSE LET head == trim_start(Slice(s, 0, Len(BYTERANGES) + 1))
         IN  IF Len(head) < 9 THEN ClsPanic
             ELSE LET boundary_str == trim_matches(trim_matches(SliceFrom(head, 9), "\""), "'")
                  IN  ClsMulti(<<"-", "-">> \o boundary_str)

single_desc(r, s) ==
    IF content_range_str(r) = None THEN ClsErr("NoContentRange", 0)
    ELSE LET cr_s == content_range_str(r)[1]
             cr == ContentRange_parse(cr_s)
         IN  CASE cr.kind = "Unsatisfied" -> ClsPanic
               [] cr.kind = "Unknown" -> ClsErrParse(cr_s)
               [] OTHER -> ClsSingle(cr, s)

\* part_description with the Content-Type requirement ahead of the status match.
part_description_content_type_first(r) ==
    IF content_type_str(r) = None THEN ClsErr("NoContentType", 0)
    ELSE IF status_code(r) = 416 THEN ClsErr("Unsatisfied", 0)
    ELSE IF status_code(r) # 206 THEN ClsErr("NotPartialResponse", status_code(r))
    ELSE LET s == trim(content_type_str(r)[1])
         IN  IF starts_with(s, BYTERANGES) THEN multi_boundary(s) ELSE single_desc(r, s)

part_description(r) ==
    IF status_code(r) = 416 THEN ClsErr("Unsatisfied", 0)
    ELSE IF status_code(r) # 206 THEN ClsErr("NotPartialResponse", status_code(r))
    ELSE IF content_type_str(r) = None THEN ClsErr("NoContentType", 0)
    ELSE LET s == trim(content_type_str(r)[1])
         IN  IF starts_with(s, BYTERANGES) THEN multi_boundary(s) ELSE single_desc(r, s)

\* ------------------------------------------------------- multipart scanner

CRLF == <<"\r", "\n">>
HH == <<"-", "-">>

\* [EMPTY_HEADER; 10]: the header slots handed to parse_headers.
HeaderSlots == 10

\* Bytes httparse accepts in a header name (the ones the model's bodies use).
TokenBytes ==
    {"-", "*", "a", "b", "c", "d", "e", "g", "j", "k", "n", "o", "p", "r", "s", "t", "u",
     "x", "y", "C", "R", "T", "X", "0", "1", "2", "3", "4", "5", "6", "7", "8", "9"}

\* First 0-based index >= i of a byte of buf that is in (or, with inside = FALSE,
\* not in) S; Len(buf) when there is none.
RECURSIVE FindByte(_, _, _, _)
FindByte(buf, i, S, inside) ==
    IF i >= Len(buf) THEN Len(buf)
    ELSE IF (buf[i + 1] \in S) = inside THEN i
    ELSE FindByte(buf, i + 1, S, inside)

PHComplete(i, heads) == [st |-> "Complete", idx |-> i, heads |-> heads]
PHPartial == [st |-> "Partial", idx |-> 0, heads |-> <<>>]
PHErr == [st |-> "Err", idx |-> 0, heads |-> <<>>]

\* httparse::parse_headers: header lines `name: value` up to a blank line.
\* Complete carries the number of bytes consumed (blank line included).
RECURSIVE ParseHeadersFrom(_, _, _)
ParseHeadersFrom(buf, i, heads) ==
    IF i >= Len(buf) THEN PHPartial
    ELSE IF buf[i + 1] = "\r"
    THEN IF i + 1 >= Len(buf) THEN PHPartial
         ELSE IF buf[i + 2] = "\n" THEN PHComplete(i + 2, heads)
         ELSE PHErr
    ELSE IF buf[i + 1] = "\n" THEN PHComplete(i + 1, heads)
    ELSE IF buf[i + 1] \notin TokenBytes THEN PHErr
    ELSE IF Len(heads) >= HeaderSlots THEN PHErr
    ELSE LET colon == FindByte(buf, i, TokenBytes, FALSE)
         IN  IF colon >= Len(buf) THEN PHPartial
             ELSE IF buf[colon + 1] # ":" THEN PHErr
             ELSE LET vs == FindByte(buf, colon + 1, Whitespace, FALSE)
                      ve == FindByte(buf, vs, {"\r", "\n"}, TRUE)
                      h == [name |-> Slice(buf, i, colon),
                            value |-> trim_end_matches(Slice(buf, vs, ve), Whitespace)]
                  IN  IF ve >= Len(buf) THEN PHPartial
                      ELSE IF buf[ve + 1] = "\n"
                      THEN ParseHeadersFrom(buf, ve + 1, Append(heads, h))
                      ELSE IF ve + 1 >= Len(buf) THEN PHPartial
                      ELSE IF buf[ve + 2] = "\n"
                      THEN ParseHeadersFrom(buf, ve + 2, Append(heads, h))
                      ELSE PHErr

parse_headers(buf) == ParseHeadersFrom(buf, 0, <<>>)

Lower(c) == CASE c = "C" -> "c" [] c = "R" -> "r" [] c = "T" -> "t" [] c = "X" -> "x"
              [] OTHER -> c

to_lowercase(s) == [i \in 1..Len(s) |-> Lower(s[i])]

CONTENT_RANGE == <<"c", "o", "n", "t", "e", "n", "t", "-", "r", "a", "n", "g", "e">>
CONTENT_TYPE == <<"c", "o", "n", "t", "e", "n", "t", "-", "t", "y", "p", "e">>

ResponsePart(ct, cr, data) == [content_type |-> ct, content_range |-> cr, data |-> data]
NoPart == ResponsePart(<<>>, CRUnknown, <<>>)

\* Option<Result<ResponsePart, PartParseError>>
ItemOk(p) == [tag |-> "Ok", part |-> p]
ItemErr == [tag |-> "Err", part |-> NoPart]
ItemNone == [tag |-> "None", part |-> NoPart]

\* The statements after the `match` in the body of `for head in heads`.
after_match(content_range, content_type, data) ==
    IF content_range = None THEN ItemErr
    ELSE IF content_type = None THEN ItemErr
    ELSE ItemOk(ResponsePart(content_type[1], content_range[1], data))

\* `for head in heads.iter() { ... }` from header i on: <<item>> when the loop body
\* returns, <<>> when the loop ends (exhausted or `break`) without returning.
RECURSIVE head_loop(_, _, _, _, _)
head_loop(heads, i, content_range, content_type, data) ==
    IF i > Len(heads) THEN <<>>
    ELSE LET name == to_lowercase(heads[i].name)
         IN  IF name = CONTENT_RANGE
             THEN IF content_type # None THEN <<>>
                  ELSE <<after_match(Some(ContentRange_parse(heads[i].value)), content_type, data)>>
             ELSE IF name = CONTENT_TYPE
             THEN IF content_range # None THEN <<>>
                  ELSE <<after_match(content_range, Some(heads[i].value), data)>>
             ELSE head_loop(heads, i + 1, content_range, content_type, data)

\* What a scan leaves behind: the item returned (or a panic), self.next_start and
\* self.is_done; saw_end records whether a boundary followed by "--" was met.
ScanRet(item, ns, done, saw) ==
    [panic |-> FALSE, item |-> item, next_start |-> ns, is_done |-> done, saw_end |-> saw]
ScanPanic(ns, done, saw) ==
    [panic |-> TRUE, item |-> ItemNone, next_start |-> ns, is_done |-> done, saw_end |-> saw]

\* The multipart loop of Parts::next over self.body[base..].windows(boundary.len()),
\* from window `offset` on; ns and done are self.next_start and self.is_done, which
\* the loop body updates while the windows keep the base they were created with.
RECURSIVE next_scan(_, _, _, _, _, _, _)
next_scan(bd, bnd, base, offset, ns, done, saw) ==
    IF base + offset + Len(bnd) > Len(bd) THEN ScanRet(ItemNone, ns, done, saw)
    ELSE IF Slice(bd, base + offset, base + offset + Len(bnd)) # bnd
    THEN next_scan(bd, bnd, base, offset + 1, ns, done, saw)
    ELSE LET prev_end == offset + ns - 2
             ns2 == ns + offset + Len(bnd) + 2
         IN  IF prev_end < 0 \/ ns > prev_end \/ prev_end > Len(bd)
             THEN ScanPanic(ns, done, saw)
             ELSE IF ns2 > Len(bd) THEN ScanPanic(ns2, done, saw)
             ELSE IF Slice(bd, ns2 - 2, ns2) \notin {CRLF, HH} THEN ScanPanic(ns2, done, saw)
             ELSE LET slice == Slice(bd, ns, prev_end)
                      done2 == (Slice(bd, ns2 - 2, ns2) = HH)
                      saw2 == saw \/ done2
                      status == parse_headers(slice)
                  IN  IF status.st # "Complete" THEN ScanRet(ItemErr, ns2, done2, saw2)
                      ELSE LET r == head_loop(status.heads, 1, None, None,
                                              SliceFrom(slice, status.idx))
                           IN  IF r # <<>> THEN ScanRet(r[1], ns2, done2, saw2)
                               ELSE next_scan(bd, bnd, base, offset + 1, ns2, done2, saw2)

DescMulti(b) == [kind |-> "Multi", boundary |-> b, content_range |-> CRUnknown,
                 content_type |-> <<>>]
DescSingle(cr, ct) == [kind |-> "Single", boundary |-> <<>>, content_range |-> cr,
                       content_type |-> ct]

\* next() that leaves is_done alone after the part of a Single description.
Parts_next_single_again(desc, bd, ns, done) ==
    IF done THEN ScanRet(ItemNone, ns, done, FALSE)
    ELSE IF desc.kind = "Single"
    THEN ScanRet(ItemOk(ResponsePart(desc.content_type, desc.content_range, bd)), ns, done,
                 FALSE)
    ELSE IF ns > Len(bd) THEN ScanPanic(ns, done, FALSE)
    ELSE next_scan(bd, desc.boundary, ns, 0, ns, done, FALSE)

\* Iterator for Parts: next().
Parts_next(desc, bd, ns, done) ==
    IF done THEN ScanRet(ItemNone, ns, done, FALSE)
    ELSE IF desc.kind = "Single"
    THEN ScanRet(ItemOk(ResponsePart(desc.content_type, desc.content_range, bd)), ns, TRUE,
                 FALSE)
    ELSE IF ns > Len(bd) THEN ScanPanic(ns, done, FALSE)
    ELSE next_scan(bd, desc.boundary, ns, 0, ns, done, FALSE)

\* The boundary search of Parts::new from window start_idx on.
RECURSIVE new_scan(_, _, _)
new_scan(bd, bnd, start_idx) ==
    IF start_idx + Len(bnd) > Len(bd) THEN ScanRet(ItemNone, 0, FALSE, FALSE)
    ELSE IF Slice(bd, start_idx, start_idx + Len(bnd)) # bnd
    THEN new_scan(bd, bnd, start_idx + 1)
    ELSE LET end_idx == start_idx + Len(bnd)
             tail_end_idx == end_idx + 2
         IN  IF tail_end_idx > Len(bd) THEN ScanPanic(0, FALSE, FALSE)
             ELSE LET tail == Slice(bd, end_idx, tail_end_idx)
                  IN  CASE tail = CRLF -> ScanRet(ItemNone, tail_end_idx, FALSE, FALSE)
                        [] tail = HH -> ScanRet(ItemNone, 0, TRUE, TRUE)
                        [] OTHER -> ScanPanic(0, FALSE, FALSE)

Parts_new(desc, bd) ==
    IF desc.kind = "Single" THEN ScanRet(ItemNone, 0, FALSE, FALSE)
    ELSE new_scan(bd, desc.boundary, 0)

\* ---------------------------------------------------- sparse reconstructor

\* (mutant) an unsatisfied range taken as the bytes [0, complete_length).
offset_len_unsatisfied_from_zero(content_range) ==
    IF content_range.kind \in {"Bytes", "UnboundBytes"}
    THEN Some(<<content_range.first_byte,
                content_range.last_byte - content_range.first_byte + 1>>)
    ELSE IF content_range.kind = "Unsatisfied"
    THEN Some(<<0, content_range.complete_length>>)
    ELSE None

\* ResponsePart::offset_len
offset_len(content_range) ==
    IF content_range.kind \in {"Bytes", "UnboundBytes"}
    THEN Some(<<content_range.first_byte,
                content_range.last_byte - content_range.first_byte + 1>>)
    ELSE None

\* ResponsePart::total_size
total_size(content_range) ==
    IF content_range.kind = "Bytes" THEN Some(content_range.complete_length) ELSE None

\* (mutant) total_len taken from the part at hand alone.
next_total_len_of_last(total_len, p, offset, len) ==
    IF total_size(p.content_range) # None
    THEN total_size(p.content_range)[1]
    ELSE offset + len

\* total_len after a part with a usable (offset, len).
next_total_len(total_len, p, offset, len) ==
    IF total_size(p.content_range) # None
    THEN Max(total_len, total_size(p.content_range)[1])
    ELSE Max(total_len, offset + len)

\* map.entry(offset): a vacant entry takes the tuple, an occupied one only a longer one.
map_entry(map, offset, len, p) ==
    LET tup == [offset |-> offset, len |-> len, part |-> p]
    IN  IF offset \in DOMAIN map
        THEN IF map[offset].len < len THEN [map EXCEPT ![offset] = tup] ELSE map
        ELSE (offset :> tup) @@ map

\* `for p in parts { ... }`: the BTreeMap keyed by offset, and total_len.
RECURSIVE collect_parts(_, _, _, _)
collect_parts(parts, i, map, total_len) ==
    IF i > Len(parts) THEN [map |-> map, total_len |-> total_len]
    ELSE LET ol == offset_len(parts[i].content_range)
         IN  IF ol = None THEN collect_parts(parts, i + 1, map, total_len)
             ELSE collect_parts(parts, i + 1,
                                map_entry(map, ol[1][1], ol[1][2], parts[i]),
                                next_total_len(total_len, parts[i], ol[1][1], ol[1][2]))

\* rope_rd::sparse::Part, with the offset it is pushed at.
PartEmpty(start, n) == [start |-> start, kind |-> "Empty", len |-> n, bytes |-> <<>>]
PartFull(start, bytes) == [start |-> start, kind |-> "Full", len |-> 0, bytes |-> bytes]

\* (mutant) no filler is pushed before a part.
filler_before_none(idx, offset) == <<>>

\* The filler pushed before a part at `offset` when the segments so far end at idx.
filler_before(idx, offset) ==
    IF idx < offset THEN <<PartEmpty(idx, offset - idx)>> ELSE <<>>

SetMin(S) == CHOOSE x \in S : \A y \in S : x <= y

\* `for (offset, len, resp) in map.into_values()`: the values in key order.
RECURSIVE push_parts(_, _, _, _)
push_parts(map, keys, idx, start_parts) ==
    IF keys = {} THEN [start_parts |-> start_parts, idx |-> idx]
    ELSE LET k == SetMin(keys)
             v == map[k]
         IN  push_parts(map, keys \ {k}, v.offset + v.len,
                        start_parts \o filler_before(idx, v.offset)
                                    \o <<PartFull(v.offset, v.part.data)>>)

\* (mutant) no filler is pushed after the last part.
filler_after_none(idx, total_len) == <<>>

\* The filler pushed after the last part, up to total_len.
filler_after(idx, total_len) ==
    IF idx < total_len THEN <<PartEmpty(idx, total_len - idx)>> ELSE <<>>

SbFull(bytes) ==
    [opt |-> "Full", bytes |-> bytes, start_parts |-> <<>>, length |-> Len(bytes),
     position |-> 0]

\* Node::partition_with_starts(start_parts, length), at position 0.
SbPartial(start_parts, length) ==
    [opt |-> "Partial", bytes |-> <<>>, start_parts |-> start_parts, length |-> length,
     position |-> 0]

EmptyMap == [x \in {} |-> 0]

make_sparse_body(parts) ==
    LET c == collect_parts(parts, 1, EmptyMap, 0)
        s == push_parts(c.map, DOMAIN c.map, 0, <<>>)
    IN  SbPartial(s.start_parts \o filler_after(s.idx, c.total_len), c.total_len)

\* MaybePartialResponse::sparse_body once the parts are at hand: a 200 response is
\* the whole body, anything else is assembled from its parts.
sparse_body(r) ==
    IF r.status = 200 THEN SbFull(r.bytes) ELSE make_sparse_body(r.parts)

\* body(self): the bytes of the response body, or the error of reading them.
Response_body(r) == IF r.body_ok THEN Some(r.bytes) ELSE None

SbErr(e) == [tag |-> "Err", err |-> e, sb |-> <<>>]
SbPanic == [tag |-> "Panic", err |-> "", sb |-> <<>>]
SbOk(b) == [tag |-> "Ok", err |-> "", sb |-> <<b>>]

PartsErr(e) == [tag |-> "Err", err |-> e, parts |-> <<>>]
PartsPanic == [tag |-> "Panic", err |-> "", parts |-> <<>>]
PartsOk(ps) == [tag |-> "Ok", err |-> "", parts |-> ps]

\* `.collect()` into Result<Vec<ResponsePart>, PartParseError>: next() until it
\* returns None, stopping at the first Err.
RECURSIVE Parts_collect(_, _, _, _, _)
\* (mutant) a collection that ends at the first Err with the parts before it.
collect_step_keep_preceding(desc, bd, acc, r) ==
    IF r.panic THEN PartsPanic
    ELSE IF r.item.tag = "None" THEN PartsOk(acc)
    ELSE IF r.item.tag = "Err" THEN PartsOk(acc)
    ELSE Parts_collect(desc, bd, r.next_start, r.is_done, Append(acc, r.item.part))

\* One step of the collection, r the outcome of the next() call.
collect_step(desc, bd, acc, r) ==
    IF r.panic THEN PartsPanic
    ELSE IF r.item.tag = "None" THEN PartsOk(acc)
    ELSE IF r.item.tag = "Err" THEN PartsErr("Part")
    ELSE Parts_collect(desc, bd, r.next_start, r.is_done, Append(acc, r.item.part))

Parts_collect(desc, bd, ns, done, acc) ==
    collect_step(desc, bd, acc, Parts_next(desc, bd, ns, done))

\* The PartDesc a successful part_description returned.
DescOf(d) ==
    IF d.kind = "Multi" THEN DescMulti(d.boundary)
    ELSE DescSingle(d.content_range, d.content_type)

\* Parts::new(desc, bd) and the collection of its elements, n the scanner state
\* after Parts::new.
new_collect(desc, bd, n) ==
    IF n.panic THEN PartsPanic
    ELSE Parts_collect(desc, bd, n.next_start, n.is_done, <<>>)

\* parts(self): Parts::new(self.part_description()?, self.body()?), d the outcome
\* of part_description, followed by collect().
parts_of(r, d) ==
    IF d.tag = "Panic" THEN PartsPanic
    ELSE IF d.tag = "Err" THEN PartsErr("Header")
    ELSE IF Response_body(r) = None THEN PartsErr("Body")
    ELSE new_collect(DescOf(d), Response_body(r)[1],
                     Parts_new(DescOf(d), Response_body(r)[1]))

Response_parts(r) == parts_of(r, part_description(r))

\* SparseBody::partial(pv?), pv the collected parts.
partial_of(r, pv) ==
    IF pv.tag = "Panic" THEN SbPanic
    ELSE IF pv.tag = "Err" THEN SbErr(pv.err)
    ELSE SbOk(sparse_body([status |-> status_code(r), bytes |-> <<>>, parts |-> pv.parts]))

\* sparse_body without the status-200 shortcut.
Response_sparse_body_classified(r) == partial_of(r, Response_parts(r))

\* MaybePartialResponse::sparse_body on a response: a 200 response is its body,
\* without a look at the headers; any other goes through parts().
Response_sparse_body(r) ==
    IF status_code(r) = 200
    THEN IF Response_body(r) = None THEN SbErr("Body")
         ELSE SbOk(sparse_body([status |-> 200, bytes |-> Response_body(r)[1], parts |-> <<>>]))
    ELSE partial_of(r, Response_parts(r))

\* rope_rd::util::abs_position: the absolute position a SeekFrom asks for, an error
\* when it is negative.
abs_position(position, length, whence, n) ==
    LET target == CASE whence = "Start" -> n
                    [] whence = "Current" -> position + n
                    [] OTHER -> length + n
    IN  [ok |-> target >= 0, pos |-> target]

\* (mutant) the end handed to abs_position is the current position.
BytesRS_seek_from_position(b, whence, n) ==
    LET r == abs_position(b.position, b.position, whence, n)
    IN  IF r.ok THEN [sb |-> [b EXCEPT !.position = r.pos], ok |-> TRUE, ret |-> r.pos]
        ELSE [sb |-> b, ok |-> FALSE, ret |-> 0]

\* Seek for BytesRS (the Full variant): the position moves only when abs_position
\* succeeds.
BytesRS_seek(b, whence, n) ==
    LET r == abs_position(b.position, Len(b.bytes), whence, n)
    IN  IF r.ok THEN [sb |-> [b EXCEPT !.position = r.pos], ok |-> TRUE, ret |-> r.pos]
        ELSE [sb |-> b, ok |-> FALSE, ret |-> 0]

\* Seek for Node (the Partial variant), over the node's length.
Node_seek(b, whence, n) ==
    LET r == abs_position(b.position, b.length, whence, n)
    IN  IF r.ok THEN [sb |-> [b EXCEPT !.position = r.pos], ok |-> TRUE, ret |-> r.pos]
        ELSE [sb |-> b, ok |-> FALSE, ret |-> 0]

SparseBody_seek(b, whence, n) ==
    IF b.opt = "Full" THEN BytesRS_seek(b, whence, n) ELSE Node_seek(b, whence, n)

\* (mutant) a read that leaves the position where it was.
BytesRS_read_in_place(b, n) ==
    LET at == Min(b.position, Len(b.bytes))
        n_read == Min(n, Len(b.bytes) - at)
    IN  [sb |-> b, buf |-> Slice(b.bytes, at, at + n_read)]

\* Read for BytesRS: a Cursor over the bytes, sought to the position.
BytesRS_read(b, n) ==
    LET at == Min(b.position, Len(b.bytes))
        n_read == Min(n, Len(b.bytes) - at)
    IN  [sb |-> [b EXCEPT !.position = b.position + n_read],
         buf |-> Slice(b.bytes, at, at + n_read)]

\* The segment of a node that serves logical offset i: the last one starting at
\* or before i (0 when there is none).
SegmentAt(b, i) ==
    LET ks == {k \in 1..Len(b.start_parts) : b.start_parts[k].start <= i}
    IN  IF ks = {} THEN 0 ELSE CHOOSE k \in ks : \A j \in ks : j <= k

\* Whether the node has a byte at offset i, and the byte: a Spacer gives zeros up
\* to its length, a BytesRS leaf its bytes; nothing at or past the node's length.
HasByteAt(b, i) ==
    /\ i < b.length
    /\ SegmentAt(b, i) # 0
    /\ LET sg == b.start_parts[SegmentAt(b, i)]
       IN  i - sg.start < (IF sg.kind = "Empty" THEN sg.len ELSE Len(sg.bytes))

ByteAt(b, i) ==
    LET sg == b.start_parts[SegmentAt(b, i)]
    IN  IF sg.kind = "Empty" THEN 0 ELSE sg.bytes[i - sg.start + 1]

\* How many of the n bytes from offset p on the node can deliver.
RECURSIVE Readable(_, _, _)
Readable(b, p, n) ==
    IF n = 0 \/ ~HasByteAt(b, p) THEN 0 ELSE 1 + Readable(b, p + 1, n - 1)

\* Read for Node: fills the buffer from the segments in order, across segment
\* boundaries, and advances the position.
Node_read(b, n) ==
    LET n_read == Readable(b, b.position, n)
    IN  [sb |-> [b EXCEPT !.position = b.position + n_read],
         buf |-> [i \in 1..n_read |-> ByteAt(b, b.position + i - 1)]]

SparseBody_read(b, n) ==
    IF b.opt = "Full" THEN BytesRS_read(b, n) ELSE Node_read(b, n)

\* Read::read_to_end: read() in chunks until it returns 0 bytes.
RECURSIVE read_to_end(_, _, _)
read_to_end(b, chunk, acc) ==
    LET r == SparseBody_read(b, chunk)
    IN  IF r.buf = <<>> THEN [sb |-> b, buf |-> acc]
        ELSE read_to_end(r.sb, chunk, acc \o r.buf)

\* -- the responses the classifier is run on

TokenChars == {"a", "b"}

RECURSIVE SeqsUpTo(_, _)
SeqsUpTo(S, n) ==
    IF n = 0 THEN {<<>>}
    ELSE LET shorter == SeqsUpTo(S, n - 1)
         IN  shorter \cup {Append(s, c) : s \in shorter, c \in S}

BoundaryTokens == SeqsUpTo(TokenChars, MaxTokenLen) \ {<<>>}

BoundaryParam == <<"b", "o", "u", "n", "d", "a", "r", "y", "=">>

\* `multipart/byteranges; boundary=X`, with optional padding and quotes.
MultiContentType(pre, q, X) ==
    pre \o BYTERANGES \o <<";", " ">> \o BoundaryParam \o q \o X \o q

MultiContentTypes ==
    {MultiContentType(pre, q, X) : pre \in {<<>>, <<" ">>}, q \in {<<>>, <<"\"">>},
                                   X \in BoundaryTokens}

TextPlain == <<"t", "e", "x", "t", "/", "p", "l", "a", "i", "n">>

ContentTypes ==
    MultiContentTypes
    \cup {TextPlain, <<" ">> \o TextPlain \o <<" ">>, BYTERANGES, BYTERANGES \o <<";">>}

ContentRanges ==
    { BytesPrefix \o <<"0", "-", "1", "/", "4">>,
      BytesPrefix \o <<"2", "-", "3", "/", "*">>,
      BytesPrefix \o <<"*", "/", "4">>,
      <<"j", "u", "n", "k">> }

Statuses == {200, 206, 404, 416}

\* The boundary part_description returns for `multipart/byteranges;...`.
SlicedBoundary == HH \o SliceFrom(BYTERANGES, 9) \o <<";">>

ContentTypeLine ==
    <<"C", "o", "n", "t", "e", "n", "t", "-", "T", "y", "p", "e", ":", " ">> \o TextPlain \o CRLF

\* Multipart bodies over that boundary: one part with a Content-Type header; two
\* such parts; a part with no header; a boundary followed by two data bytes.
MultipartBodies ==
    { SlicedBoundary \o CRLF \o ContentTypeLine \o CRLF \o <<"d">> \o CRLF
        \o SlicedBoundary \o HH,
      SlicedBoundary \o CRLF \o ContentTypeLine \o CRLF \o <<"d">> \o CRLF
        \o SlicedBoundary \o CRLF \o ContentTypeLine \o CRLF \o <<"d">> \o CRLF
        \o SlicedBoundary \o HH,
      SlicedBoundary \o CRLF \o CRLF \o CRLF \o SlicedBoundary \o HH,
      SlicedBoundary \o <<"d", "d">> }

\* The bodies of the classified responses, and whether reading the body succeeds.
Bodies == {<<>>, <<"d">>, <<"d", "e">>} \cup MultipartBodies

Responses ==
  {r \in
    [adapter : Adapters,
     status : Statuses,
     content_type : {None} \cup {Some(t) : t \in ContentTypes},
     content_range : {None} \cup {Some(c) : c \in ContentRanges},
     bytes : Bodies,
     body_ok : BOOLEAN]
   : r.adapter = "test" => r.body_ok}

NoResp == [adapter |-> "", status |-> 0, content_type |-> None, content_range |-> None,
           bytes |-> <<>>, body_ok |-> TRUE]

ScannerIdle ==
    /\ body = <<>> /\ part_desc = <<>> /\ is_done = FALSE /\ next_start = 0
    /\ ppc = "idle" /\ out = <<>> /\ end_at = -1

SparseIdle == src = <<>> /\ sb = <<>> /\ last = <<>>

\* -- the multipart bodies the scanner is run on

\* Most parts of a generated body (before its closing boundary).
MaxBodyParts == 2
\* Longest data block of a generated part.
MaxDataLen == 1
\* Longest padding of a generated epilogue.
MaxPad == 7
\* Most next() calls followed on one Parts value.
MaxCalls == 4

Bnd == <<"-", "-", "b">>

DigitChar(n) == CASE n = 0 -> "0" [] n = 1 -> "1" [] n = 2 -> "2" [] n = 3 -> "3"
                  [] n = 4 -> "4" [] n = 5 -> "5" [] n = 6 -> "6" [] n = 7 -> "7"
                  [] n = 8 -> "8" [] OTHER -> "9"

\* The Content-Range value of the j-th generated part: `bytes j-j/9`.
RangeValue(j) == BytesPrefix \o <<DigitChar(j), "-", DigitChar(j), "/", "9">>

\* One header line of kind k in part j: T Content-Type, R Content-Range, X an
\* unrelated header, J a line with no colon, P nothing (and no blank line follows).
HeaderLine(k, j) ==
    CASE k = "T" -> <<"C", "o", "n", "t", "e", "n", "t", "-", "T", "y", "p", "e", ":", " ">>
                    \o TextPlain \o CRLF
      [] k = "R" -> <<"C", "o", "n", "t", "e", "n", "t", "-", "R", "a", "n", "g", "e", ":", " ">>
                    \o RangeValue(j) \o CRLF
      [] k = "X" -> <<"X", "-", "a", ":", " ", "1">> \o CRLF
      [] k = "J" -> <<"j", "u", "n", "k">> \o CRLF
      [] OTHER -> <<>>

RECURSIVE HeaderLines(_, _)
HeaderLines(shape, j) ==
    IF shape = <<>> THEN <<>> ELSE HeaderLine(Head(shape), j) \o HeaderLines(Tail(shape), j)

\* The header block of a part: its lines, then the blank line (unless truncated).
HeaderBlock(shape, j) ==
    HeaderLines(shape, j) \o (IF shape # <<>> /\ shape[Len(shape)] = "P" THEN <<>> ELSE CRLF)

DataBytes(n) == [i \in 1..n |-> IF i % 2 = 1 THEN "d" ELSE "e"]

Shapes ==
    { <<"T", "R">>, <<"R", "T">>, <<"X", "T", "R">>, <<"T">>, <<"R">>, <<"X", "T">>,
      <<"X">>, <<>>, <<"J">>, <<"T", "R", "P">> }

PartRecipes == [shape : Shapes, dlen : 0..MaxDataLen]

\* boundary CRLF header-block data CRLF
PartBytes(r, j) == Bnd \o CRLF \o HeaderBlock(r.shape, j) \o DataBytes(r.dlen) \o CRLF

RECURSIVE PartsBytes(_, _)
PartsBytes(rs, j) ==
    IF j > Len(rs) THEN <<>> ELSE PartBytes(rs[j], j) \o PartsBytes(rs, j + 1)

Pad(n) == [i \in 1..n |-> "p"]

\* How a generated body ends after its parts.
Endings ==
    { [kind |-> k, pad |-> 0] : k \in {"close", "closeCRLF", "none", "cut", "badtail", "more",
                                      "adjacent"} }
    \cup { [kind |-> "padded", pad |-> n] : n \in 0..MaxPad }

EndingBytes(e) ==
    CASE e.kind = "close" -> Bnd \o HH
      [] e.kind = "closeCRLF" -> Bnd \o HH \o CRLF
      [] e.kind = "none" -> <<>>
      [] e.kind = "cut" -> Bnd \o <<"\r">>
      [] e.kind = "badtail" -> Bnd \o <<"d", "d">>
      [] e.kind = "adjacent" -> Bnd \o CRLF \o Bnd \o HH
      [] e.kind = "more" ->
            Bnd \o HH \o CRLF
            \o PartBytes([shape |-> <<"T", "R">>, dlen |-> 1], 9) \o Bnd \o HH
      [] OTHER ->
            Bnd \o HH \o Bnd \o CRLF \o Pad(e.pad) \o CRLF \o <<"d", "d">> \o Bnd \o HH

Preambles == {<<>>, <<"p", "\r", "\n">>}

BodyRecipes ==
    [pre : Preambles,
     parts : UNION {[1..n -> PartRecipes] : n \in 0..MaxBodyParts},
     ending : Endings]

BodyBytes(r) == r.pre \o PartsBytes(r.parts, 1) \o EndingBytes(r.ending)

ClassifierIdle == resp = NoResp /\ cls = <<>>

InitParts ==
    /\ src \in BodyRecipes
    /\ body = BodyBytes(src)
    /\ part_desc \in {DescMulti(Bnd), DescSingle(CRBytes(0, 0, 9), TextPlain)}
    /\ part_desc.kind = "Single" => (src.pre = <<>> /\ src.ending.kind = "close")
    /\ is_done = FALSE
    /\ next_start = 0
    /\ ppc = "fresh"
    /\ out = <<>>
    /\ end_at = -1
    /\ ClassifierIdle
    /\ sb = <<>>
    /\ last = <<>>
    /\ req = <<>>

\* Parts::new(part_desc, body)
New ==
    /\ ppc = "fresh"
    /\ LET r == Parts_new(part_desc, body)
       IN  /\ ppc' = IF r.panic THEN "panicked" ELSE "ready"
           /\ is_done' = r.is_done
           /\ next_start' = r.next_start
           /\ end_at' = IF r.saw_end THEN 0 ELSE -1
    /\ UNCHANGED <<resp, cls, body, part_desc, out, src, sb, last, req>>

\* One call of Parts::next; a panic ends the run.
NextCall ==
    /\ ppc = "ready"
    /\ Len(out) < MaxCalls
    /\ LET r == Parts_next(part_desc, body, next_start, is_done)
       IN  /\ ppc' = IF r.panic THEN "panicked" ELSE "ready"
           /\ is_done' = r.is_done
           /\ next_start' = r.next_start
           /\ out' = IF r.panic THEN out ELSE Append(out, r.item)
           /\ end_at' = IF end_at = -1 /\ r.saw_end /\ ~r.panic THEN Len(out) + 1 ELSE end_at
    /\ UNCHANGED <<resp, cls, body, part_desc, src, sb, last, req>>

NextParts == New \/ NextCall

SpecParts == InitParts /\ [][NextParts]_vars

\* -- the inputs the reconstructor is run on

\* The bytes [offset, offset + len) of the resource the server holds: byte i of
\* the resource is i + 1, so no byte is zero and every byte names its place.
PartData(offset, len) == [i \in 1..len |-> offset + i]

\* The ContentRange values of the parts: every variant, with a reported complete
\* length one below the end of the range, at it, and beyond every range.
ContentRangeValues ==
    {CRBytes(f, l, c) : f \in 0..MaxLast, l \in 0..MaxLast, c \in 0..(MaxLast + 2)}
    \cup {CRUnbound(f, l) : f \in 0..MaxLast, l \in 0..MaxLast}
    \cup {CRUnsatisfied(MaxLast + 2), CRUnknown}

RangeValues ==
    {cr \in ContentRangeValues :
        /\ cr.first_byte <= cr.last_byte
        /\ cr.kind = "Bytes" =>
              cr.complete_length \in {cr.last_byte, cr.last_byte + 1, MaxLast + 2}}

\* The part with the given Content-Range, its data the bytes of that range.
PartOf(cr) ==
    ResponsePart(TextPlain, cr,
                 IF offset_len(cr) = None THEN PartData(0, 1)
                 ELSE PartData(offset_len(cr)[1][1], offset_len(cr)[1][2]))

Usable(p) == offset_len(p.content_range) # None
Offset(p) == offset_len(p.content_range)[1][1]
Length(p) == offset_len(p.content_range)[1][2]

Disjoint(p, q) == Offset(p) + Length(p) <= Offset(q) \/ Offset(q) + Length(q) <= Offset(p)

\* The server sends no ranges that overlap (src/lib.rs), except that two parts may
\* start at the same offset, which make_sparse_body resolves.
NoPartialOverlap(parts) ==
    \A i \in 1..Len(parts) : \A j \in 1..Len(parts) :
        (i < j /\ Usable(parts[i]) /\ Usable(parts[j])) =>
            Disjoint(parts[i], parts[j]) \/ Offset(parts[i]) = Offset(parts[j])

PartLists ==
    {ps \in UNION {[1..n -> {PartOf(cr) : cr \in RangeValues}] : n \in 0..MaxParts}
        : NoPartialOverlap(ps)}

FullInputs ==
    {[status |-> 200, bytes |-> PartData(0, n), parts |-> <<>>] : n \in 0..(MaxLast + 1)}

SparseInputs ==
    {[status |-> 206, bytes |-> <<>>, parts |-> ps] : ps \in PartLists} \cup FullInputs

\* Part lists in offset order with no two ranges touching the same byte: every
\* stream make_sparse_body can build is built from one of them.
Ascending(parts) ==
    \A i \in 1..Len(parts) :
        /\ Usable(parts[i])
        /\ i > 1 => Offset(parts[i - 1]) + Length(parts[i - 1]) <= Offset(parts[i])

StreamInputs ==
    {i \in SparseInputs : i.status = 200 \/ Ascending(i.parts)}

NoCall == [op |-> "", p |-> 0, n |-> 0, whence |-> "", ok |-> TRUE, ret |-> 0, buf |-> <<>>]

InitSparse ==
    /\ src \in SparseInputs
    /\ sb = <<>>
    /\ last = NoCall
    /\ ClassifierIdle
    /\ ScannerIdle
    /\ req = <<>>

\* sparse_body: the stream is built, at position 0.
Build ==
    /\ sb = <<>>
    /\ sb' = <<sparse_body(src)>>
    /\ UNCHANGED <<resp, cls, body, part_desc, is_done, next_start, ppc, out, end_at, src,
                   last, req>>

\* One read call with a buffer of n bytes.
Read(n) ==
    /\ sb # <<>>
    /\ LET r == SparseBody_read(sb[1], n)
       IN  /\ sb' = <<r.sb>>
           /\ last' = [op |-> "read", p |-> sb[1].position, n |-> n, whence |-> "",
                       ok |-> TRUE, ret |-> Len(r.buf), buf |-> r.buf]
    /\ UNCHANGED <<resp, cls, body, part_desc, is_done, next_start, ppc, out, end_at, src, req>>

\* read_to_end from the current position.
ReadToEnd ==
    /\ sb # <<>>
    /\ LET r == read_to_end(sb[1], MaxBuf, <<>>)
       IN  /\ sb' = <<r.sb>>
           /\ last' = [op |-> "read_to_end", p |-> sb[1].position, n |-> 0, whence |-> "",
                       ok |-> TRUE, ret |-> Len(r.buf), buf |-> r.buf]
    /\ UNCHANGED <<resp, cls, body, part_desc, is_done, next_start, ppc, out, end_at, src, req>>

\* One seek call: SeekFrom::Start(n), Current(n) or End(n).
Seek(whence, n) ==
    /\ sb # <<>>
    /\ whence = "Start" => n >= 0
    /\ LET r == SparseBody_seek(sb[1], whence, n)
       IN  /\ r.sb.position <= MaxPosition
           /\ sb' = <<r.sb>>
           /\ last' = [op |-> "seek", p |-> sb[1].position, n |-> n, whence |-> whence,
                       ok |-> r.ok, ret |-> r.ret, buf |-> <<>>]
    /\ UNCHANGED <<resp, cls, body, part_desc, is_done, next_start, ppc, out, end_at, src, req>>

\* Building a stream and reading it whole.
NextSparse == Build \/ ReadToEnd

SpecSparse == InitSparse /\ [][NextSparse]_vars

\* A built stream under any sequence of read and seek calls.
InitStream ==
    /\ src \in StreamInputs
    /\ sb = <<sparse_body(src)>>
    /\ last = NoCall
    /\ ClassifierIdle
    /\ ScannerIdle
    /\ req = <<>>

NextStream ==
    \/ \E n \in 1..MaxBuf : Read(n)
    \/ \E whence \in {"Start", "Current", "End"} : \E n \in (-MaxSeek)..MaxSeek :
          Seek(whence, n)

SpecStream == InitStream /\ [][NextStream]_vars

InitClassify ==
    /\ resp \in Responses
    /\ cls = <<>>
    /\ ScannerIdle
    /\ src = <<>> /\ sb = <<>> /\ last = NoCall
    /\ req = <<>>

\* part_description() on the response.
Classify ==
    /\ cls = <<>>
    /\ last = NoCall
    /\ resp # NoResp
    /\ cls' = <<part_description(resp)>>
    /\ UNCHANGED <<resp, body, part_desc, is_done, next_start, ppc, out, end_at, src, sb, last, req>>

\* sparse_body() on the response; it consumes the response.
SparseBodyCall ==
    /\ cls = <<>>
    /\ last = NoCall
    /\ resp # NoResp
    /\ \E r \in {Response_sparse_body(resp)} :
           /\ sb' = r.sb
           /\ last' = [NoCall EXCEPT !.op = "sparse_body", !.ok = (r.tag = "Ok"),
                                     !.whence = IF r.tag = "Panic" THEN "panic" ELSE r.err]
    /\ UNCHANGED <<resp, cls, body, part_desc, is_done, next_start, ppc, out, end_at, src, req>>

NextClassify == Classify \/ SparseBodyCall \/ ReadToEnd

SpecClassify == InitClassify /\ [][NextClassify]_vars

\* --------------------------------------------------------- request builder

\* u64::MAX at the width of the model.
U64_MAX == 2 ^ WordBits - 1

BYTES == <<"b", "y", "t", "e", "s">>

\* HttpRange, the two variants.
HttpRange_Range(start, end) == [kind |-> "Range", start |-> start, end |-> end, len |-> 0]
HttpRange_Suffix(n) == [kind |-> "Suffix", start |-> 0, end |-> None, len |-> n]

\* Display for u64: the decimal digits, most significant first.
RECURSIVE fmt_u64(_)
fmt_u64(n) ==
    IF n < 10 THEN <<DigitChar(n)>> ELSE fmt_u64(n \div 10) \o <<DigitChar(n % 10)>>

\* Display for HttpRange: `{start}-`, then `{e}` if there is an end; `-{len}`.
HttpRange_to_string(r) ==
    IF r.kind = "Range"
    THEN fmt_u64(r.start) \o <<"-">> \o (IF r.end = None THEN <<>> ELSE fmt_u64(r.end[1]))
    ELSE <<"-">> \o fmt_u64(r.len)

\* std::ops::Bound<u64>
Included(i) == [bound |-> "Included", i |-> i]
Excluded(i) == [bound |-> "Excluded", i |-> i]
Unbounded == [bound |-> "Unbounded", i |-> 0]

ConvOk(start, end, wrapped) ==
    [panic |-> FALSE, wrapped |-> wrapped, range |-> HttpRange_Range(start, end)]
ConvPanic == [panic |-> TRUE, wrapped |-> FALSE, range |-> HttpRange_Range(0, None)]

\* From<T: RangeBounds<u64>> for HttpRange. `i + 1` and `i - 1` are plain u64
\* arithmetic: past the ends of u64 they panic in a build with overflow checks and
\* wrap around in a build without.
HttpRange_from(start_bound, end_bound, overflow_checks) ==
    LET start_over == start_bound.bound = "Excluded" /\ start_bound.i = U64_MAX
        end_under == end_bound.bound = "Excluded" /\ end_bound.i = 0
        start == CASE start_bound.bound = "Included" -> start_bound.i
                   [] start_bound.bound = "Excluded" -> (start_bound.i + 1) % (U64_MAX + 1)
                   [] OTHER -> 0
        end == CASE end_bound.bound = "Included" -> Some(end_bound.i)
                 [] end_bound.bound = "Excluded" ->
                      Some((end_bound.i + U64_MAX) % (U64_MAX + 1))
                 [] OTHER -> None
    IN  IF (start_over \/ end_under) /\ overflow_checks THEN ConvPanic
        ELSE ConvOk(start, end, start_over \/ end_under)

\* RangeHeader::new(unit); Default is new(BYTES).
RangeHeader_new(unit) == [unit |-> unit, ranges |-> <<>>]

\* (mutant) push that puts the new range in front.
RangeHeader_push_front(h, range) == [h EXCEPT !.ranges = <<range>> \o h.ranges]

\* RangeHeader::push
RangeHeader_push(h, range) == [h EXCEPT !.ranges = Append(h.ranges, range)]

\* RangeHeader::extend: push for each range, in order.
RECURSIVE RangeHeader_extend(_, _)
RangeHeader_extend(h, ranges) ==
    IF ranges = <<>> THEN h
    ELSE RangeHeader_extend(RangeHeader_push(h, Head(ranges)), Tail(ranges))

\* The reduce of Display for RangeHeader: accum + "," + next, from the left; None
\* for no ranges.
RECURSIVE reduce_ranges(_, _, _)
reduce_ranges(ranges, i, accum) ==
    IF i > Len(ranges) THEN accum
    ELSE reduce_ranges(ranges, i + 1, accum \o <<",">> \o HttpRange_to_string(ranges[i]))

\* Display for RangeHeader: nothing for no ranges, else `{unit}={range_string}`.
RangeHeader_to_string(h) ==
    IF h.ranges = <<>> THEN <<>>
    ELSE h.unit \o <<"=">> \o reduce_ranges(h.ranges, 2, HttpRange_to_string(h.ranges[1]))

\* -- the request builder's inputs

\* The numbers of the appended specs: both ends of u64 and a two-digit number.
SpecNumbers == {0, 12, U64_MAX}

HttpRanges ==
    {HttpRange_Range(s, e) : s \in SpecNumbers, e \in {None} \cup {Some(n) : n \in SpecNumbers}}
    \cup {HttpRange_Suffix(n) : n \in SpecNumbers}

Units == {BYTES, <<"i", "t", "e", "m", "s">>}

\* The numbers of the converted range bounds.
BoundNumbers == {0, 1, 12, U64_MAX}

Bounds == {Included(i) : i \in BoundNumbers} \cup {Excluded(i) : i \in BoundNumbers}
          \cup {Unbounded}

NoConv == [start_bound |-> Unbounded, end_bound |-> Unbounded, overflow_checks |-> FALSE,
           done |-> FALSE, result |-> ConvPanic]

OthersIdle ==
    /\ ClassifierIdle
    /\ ScannerIdle
    /\ SparseIdle

\* A new header: RangeHeader::new(unit) or RangeHeader::default().
InitRequest ==
    /\ \E unit \in Units : req = [header |-> RangeHeader_new(unit), pushed |-> <<>>,
                                  conv |-> NoConv]
    /\ OthersIdle

\* push(range)
Push(range) ==
    /\ Len(req.header.ranges) < MaxRanges
    /\ req' = [req EXCEPT !.header = RangeHeader_push(req.header, range),
                          !.pushed = Append(req.pushed, range)]
    /\ UNCHANGED <<resp, cls, body, part_desc, is_done, next_start, ppc, out, end_at, src, sb,
                   last>>

\* extend(ranges), which is also collect() and from() on a new header.
Extend(ranges) ==
    /\ Len(req.header.ranges) + Len(ranges) <= MaxRanges
    /\ req' = [req EXCEPT !.header = RangeHeader_extend(req.header, ranges),
                          !.pushed = req.pushed \o ranges]
    /\ UNCHANGED <<resp, cls, body, part_desc, is_done, next_start, ppc, out, end_at, src, sb,
                   last>>

NextRequest ==
    \/ \E range \in HttpRanges : Push(range)
    \/ \E r1 \in HttpRanges : \E r2 \in HttpRanges : Extend(<<r1, r2>>)

SpecRequest == InitRequest /\ [][NextRequest]_vars

\* Range bounds about to be converted.
InitConvert ==
    /\ req = [header |-> RangeHeader_new(BYTES), pushed |-> <<>>, conv |-> NoConv]
    /\ OthersIdle

\* HttpRange::from(range), in a build with or without overflow checks.
Convert(start_bound, end_bound, overflow_checks) ==
    /\ req' = [req EXCEPT !.conv =
                 [start_bound |-> start_bound, end_bound |-> end_bound,
                  overflow_checks |-> overflow_checks, done |-> TRUE,
                  result |-> HttpRange_from(start_bound, end_bound, overflow_checks)]]
    /\ UNCHANGED <<resp, cls, body, part_desc, is_done, next_start, ppc, out, end_at, src, sb,
                   last>>

NextConvert ==
    \E start_bound \in Bounds : \E end_bound \in Bounds : \E overflow_checks \in BOOLEAN :
        Convert(start_bound, end_bound, overflow_checks)

SpecConvert == InitConvert /\ [][NextConvert]_vars

\* ------------------------------------------------------------ the claims

\* -- classifier

\* C2: a 206 response whose content type is `multipart/byteranges; boundary=X`
\* (X possibly quoted) is classified Multi with boundary "--" followed by X.
C2_MultipartBoundaryIsToken ==
    \A pre \in {<<>>, <<" ">>} : \A q \in {<<>>, <<"\"">>} : \A X \in BoundaryTokens :
        (cls # <<>> /\ status_code(resp) = 206
           /\ content_type_str(resp) = Some(MultiContentType(pre, q, X)))
        => cls[1] = ClsMulti(HH \o X)

\* C11: a 416 response is classified Err(Unsatisfied) and a response with a status
\* other than 200, 206 and 416 Err(NotPartialResponse(status)), whatever headers
\* it has.
C11_StatusDecidesFirst ==
    cls # <<>> =>
        /\ status_code(resp) = 416 => cls[1] = ClsErr("Unsatisfied", 0)
        /\ status_code(resp) \notin {200, 206, 416} =>
              cls[1] = ClsErr("NotPartialResponse", status_code(resp))

\* C11 witness: a 404 response without a Content-Type, classified.
C11_Witness ==
    /\ cls # <<>> /\ status_code(resp) = 404
    /\ content_type_str(resp) = None /\ content_range_str(resp) = None
    /\ cls[1] = ClsErr("NotPartialResponse", 404)

\* A 206 response that is not multipart/byteranges, as part_description sees it.
NotMultipart ==
    /\ status_code(resp) = 206
    /\ content_type_str(resp) # None => ~starts_with(trim(content_type_str(resp)[1]), BYTERANGES)

\* C12: a 206 response that is not multipart resolves in the order NoContentType,
\* NoContentRange, ContentRangeParse with the raw value, Single with the parsed
\* range and the trimmed content type. (The unsatisfied form may go either way here.)
C12_SingleResolutionOrder ==
    (cls # <<>> /\ NotMultipart) =>
        IF content_type_str(resp) = None THEN cls[1] = ClsErr("NoContentType", 0)
        ELSE IF content_range_str(resp) = None THEN cls[1] = ClsErr("NoContentRange", 0)
        ELSE LET cr_s == content_range_str(resp)[1]
                 single == ClsSingle(ContentRange_parse(cr_s), trim(content_type_str(resp)[1]))
             IN  CASE ContentRange_parse(cr_s).kind = "Unknown" -> cls[1] = ClsErrParse(cr_s)
                   [] ContentRange_parse(cr_s).kind = "Unsatisfied" ->
                        cls[1] \in {ClsErrParse(cr_s), single}
                   [] OTHER -> cls[1] = single

\* C13: a 206 non-multipart response whose Content-Range has the unsatisfied form
\* `bytes */N` is classified Err(ContentRangeParse).
C13_UnsatisfiedFormIsParseError ==
    (/\ cls # <<>> /\ NotMultipart
     /\ content_type_str(resp) # None /\ content_range_str(resp) # None
     /\ ContentRange_parse(content_range_str(resp)[1]).kind = "Unsatisfied") =>
        cls[1] = ClsErrParse(content_range_str(resp)[1])

\* C14: sparse_body on a 200 response never looks at the headers: it fails only
\* when reading the body fails, and the stream it returns has the body's length
\* and, read from position 0 to the end, the body's bytes.
C14_FullBodyBypassesClassification ==
    /\ (last.op = "sparse_body" /\ status_code(resp) = 200) =>
          /\ last.ok <=> resp.body_ok
          /\ last.ok => sb # <<>>
          /\ ~last.ok => last.whence = "Body"
    /\ (sb # <<>> /\ status_code(resp) = 200) =>
          /\ sb[1].opt = "Full"
          /\ read_to_end([sb[1] EXCEPT !.position = 0], MaxBuf, <<>>).buf = resp.bytes
          /\ Len(sb[1].bytes) = Len(resp.bytes)
    /\ (last.op = "read_to_end" /\ last.p = 0 /\ status_code(resp) = 200) =>
          last.buf = resp.bytes

\* C14 witness: a 200 response with a multipart content type and a Content-Range
\* that does not parse, its stream read whole.
C14_Witness ==
    /\ status_code(resp) = 200
    /\ content_type_str(resp) = Some(BYTERANGES)
    /\ resp.content_range = Some(<<"j", "u", "n", "k">>)
    /\ last.op = "read_to_end" /\ last.p = 0 /\ last.buf = <<"d", "e">>

\* C15: in every implementor content_range_str is the Content-Range header and
\* content_type_str the Content-Type header, so a 206 response with
\* `Content-Type: text/plain` and a valid Content-Range is classified Single.
C15_AdaptersReadTheirHeaders ==
    cls # <<>> =>
        /\ content_type_str(resp) = resp.content_type
        /\ content_range_str(resp) = resp.content_range
        /\ (/\ status_code(resp) = 206
            /\ resp.content_type = Some(TextPlain)
            /\ resp.content_range = Some(BytesPrefix \o <<"0", "-", "1", "/", "4">>)) =>
              cls[1] = ClsSingle(CRBytes(0, 1, 4), TextPlain)

\* Whether the elements next() returns from the scanner state (ns, done) on hold an
\* Err before the sequence ends; r is the outcome of the next call.
RECURSIVE SequenceHasErr(_, _, _, _)
StepHasErr(desc, bd, r) ==
    /\ ~r.panic
    /\ r.item.tag # "None"
    /\ r.item.tag = "Err" \/ SequenceHasErr(desc, bd, r.next_start, r.is_done)

SequenceHasErr(desc, bd, ns, done) == StepHasErr(desc, bd, Parts_next(desc, bd, ns, done))

\* The part sequence of response r, classified as d and scanned from n on, holds
\* an Err.
PartSequenceFails(r, d, n) ==
    /\ ~n.panic
    /\ SequenceHasErr(DescOf(d), r.bytes, n.next_start, n.is_done)

PartsFail(r, d) ==
    /\ d.tag = "Ok"
    /\ r.body_ok
    /\ PartSequenceFails(r, d, Parts_new(DescOf(d), r.bytes))

\* sparse_body returned the SparseBodyError e and no stream.
FailedWith(e) == ~last.ok /\ last.whence = e /\ sb = <<>>

\* The response as classified by d: what the sparse_body call on it must have done.
AllOrNothing(r, d) ==
    /\ d.tag = "Err" => FailedWith("Header")
    /\ (d.tag = "Ok" /\ ~r.body_ok) => FailedWith("Body")
    /\ PartsFail(r, d) => FailedWith("Part")
    /\ ~last.ok => sb = <<>>

SpecText(r) ==
    CASE r.kind = "Suffix" -> <<"-">> \o fmt_u64(r.len)
      [] r.kind = "Range" /\ r.end = None -> fmt_u64(r.start) \o <<"-">>
      [] OTHER -> fmt_u64(r.start) \o <<"-">> \o fmt_u64(r.end[1])

\* The specs from the i-th on, each after the first preceded by one comma.
RECURSIVE CommaJoined(_, _)
CommaJoined(specs, i) ==
    IF i > Len(specs) THEN <<>>
    ELSE (IF i = 1 THEN <<>> ELSE <<",">>) \o SpecText(specs[i]) \o CommaJoined(specs, i + 1)

\* C16: the rendered header is `unit=` followed by the specs in append order,
\* joined by single commas; a header with no specs renders as the empty string.
C16_HeaderJoinsSpecsInOrder ==
    (req # <<>>) =>
        RangeHeader_to_string(req.header) =
            IF req.pushed = <<>> THEN <<>>
            ELSE req.header.unit \o <<"=">> \o CommaJoined(req.pushed, 1)

\* C16 witness: three specs, one of them twice, rendered `bytes=0-12,-12,0-12`.
C16_Witness ==
    /\ req # <<>>
    /\ req.pushed = <<HttpRange_Range(0, Some(12)), HttpRange_Suffix(12),
                      HttpRange_Range(0, Some(12))>>
    /\ RangeHeader_to_string(req.header) =
         <<"b", "y", "t", "e", "s", "=", "0", "-", "1", "2", ",", "-", "1", "2", ",",
           "0", "-", "1", "2">>

\* C17: an inclusive range [a, b] converts to start a, end Some(b); a half-open
\* range [a, b) to start a, end Some(b - 1); an open-ended range [a, inf) to start
\* a, end None; a range without lower bound has start 0.
C17_RangeBoundsConversion ==
    (req # <<>> /\ req.conv.done) =>
        LET c == req.conv
            a == c.start_bound.i
            b == c.end_bound.i
        IN  /\ (c.start_bound.bound = "Included" /\ c.end_bound.bound = "Included") =>
                  (~c.result.panic /\ c.result.range = HttpRange_Range(a, Some(b)))
            /\ (c.start_bound.bound = "Included" /\ c.end_bound.bound = "Excluded") =>
                  (~c.result.panic /\ c.result.range = HttpRange_Range(a, Some(b - 1)))
            /\ (c.start_bound.bound = "Included" /\ c.end_bound.bound = "Unbounded") =>
                  (~c.result.panic /\ c.result.range = HttpRange_Range(a, None))
            /\ c.start_bound.bound = "Unbounded" =>
                  (~c.result.panic /\ c.result.range.start = 0)

\* C18: the conversion of range bounds never fails: no panic, no overflow or
\* underflow, and the numbers of the spec lie in [0, 2^64).
C18_ConversionCannotFail ==
    (req # <<>> /\ req.conv.done) =>
        /\ ~req.conv.result.panic
        /\ ~req.conv.result.wrapped
        /\ req.conv.result.range.start \in 0..U64_MAX
        /\ req.conv.result.range.end # None => req.conv.result.range.end[1] \in 0..U64_MAX

\* -- sparse reconstructor

\* A stream assembled from parts of which at least one has a usable range.
PartialBuilt ==
    /\ sb # <<>>
    /\ src.status = 206
    /\ \E k \in 1..Len(src.parts) : Usable(src.parts[k])

NonOverlapping(parts) ==
    \A i \in 1..Len(parts) : \A j \in 1..Len(parts) :
        (i < j /\ Usable(parts[i]) /\ Usable(parts[j])) => Disjoint(parts[i], parts[j])

Covers(p, i) == Usable(p) /\ Offset(p) <= i /\ i < Offset(p) + Length(p)

\* The byte the parts put at logical offset i: the data byte of the part whose range
\* holds i, zero where no part does.
ExpectedByte(parts, i) ==
    IF \E k \in 1..Len(parts) : Covers(parts[k], i)
    THEN LET k == CHOOSE k \in 1..Len(parts) : Covers(parts[k], i)
         IN  parts[k].data[i - Offset(parts[k]) + 1]
    ELSE 0

\* C1: for non-overlapping parts, reading the stream from position 0 to its end
\* yields total_length bytes: each part's data at its offset, zero elsewhere.
C1_ReadAllReproducesParts ==
    (PartialBuilt /\ NonOverlapping(src.parts) /\ last.op = "read_to_end" /\ last.p = 0) =>
        /\ Len(last.buf) = sb[1].length
        /\ \A i \in 0..(Len(last.buf) - 1) : last.buf[i + 1] = ExpectedByte(src.parts, i)

\* C1 witness: two parts with a hole between them and a hole after, read whole.
C1_Witness ==
    /\ PartialBuilt /\ NonOverlapping(src.parts)
    /\ last.op = "read_to_end" /\ last.p = 0
    /\ last.buf = <<1, 0, 3, 0>>

\* The total length C7 states: the largest, over the usable parts, of the reported
\* complete length and of offset + length.
RECURSIVE ClaimedTotal(_, _)
ClaimedTotal(parts, i) ==
    IF i > Len(parts) THEN 0
    ELSE IF ~Usable(parts[i]) THEN ClaimedTotal(parts, i + 1)
    ELSE LET rest == ClaimedTotal(parts, i + 1)
             ext == Offset(parts[i]) + Length(parts[i])
             ts == total_size(parts[i].content_range)
         IN  Max(rest, IF ts = None THEN ext ELSE Max(ext, ts[1]))

\* C7: the stream's total length is the largest reported complete length and
\* offset + length over the usable parts, so every usable part ends within it.
C7_TotalLengthIsMax ==
    (sb # <<>> /\ src.status = 206) =>
        /\ sb[1].length = ClaimedTotal(src.parts, 1)
        /\ \A k \in 1..Len(src.parts) :
              Usable(src.parts[k]) => Offset(src.parts[k]) + Length(src.parts[k]) <= sb[1].length

Remove(parts, i) == SubSeq(parts, 1, i - 1) \o SubSeq(parts, i + 1, Len(parts))

\* What a stream is to its reader: its length and its bytes from position 0.
Stream(b) == [length |-> b.length, bytes |-> read_to_end(b, MaxBuf, <<>>).buf]

\* A part whose range ends within the complete length it reports (if it reports one).
WithinReported(p) ==
    total_size(p.content_range) = None
    \/ Offset(p) + Length(p) <= total_size(p.content_range)[1]

\* C8: of two parts with the same offset the shorter one leaves no trace: the
\* stream's length and bytes equal those of the stream built without it. (Stated
\* for parts whose ranges end within the complete length they report.)
C8_ShorterDuplicateLeavesNoTrace ==
    (/\ sb # <<>> /\ src.status = 206
     /\ \A k \in 1..Len(src.parts) : Usable(src.parts[k]) => WithinReported(src.parts[k])) =>
        \A i \in 1..Len(src.parts) : \A j \in 1..Len(src.parts) :
            (/\ i # j /\ Usable(src.parts[i]) /\ Usable(src.parts[j])
             /\ Offset(src.parts[i]) = Offset(src.parts[j])
             /\ Length(src.parts[i]) < Length(src.parts[j]))
            => Stream([sb[1] EXCEPT !.position = 0])
                 = Stream(make_sparse_body(Remove(src.parts, i)))

\* A part whose content range is unsatisfied or unknown.
Dropped(p) == p.content_range.kind \in {"Unsatisfied", "Unknown"}

\* The parts with the unsatisfied and unknown ones taken out, in their order.
RECURSIVE WithoutDropped(_)
WithoutDropped(parts) ==
    IF parts = <<>> THEN <<>>
    ELSE IF Dropped(Head(parts)) THEN WithoutDropped(Tail(parts))
    ELSE <<Head(parts)>> \o WithoutDropped(Tail(parts))

\* C23: parts whose content range is unsatisfied or unknown leave no trace: the
\* stream (total length, segments, bytes) is the one built from the input without
\* them, and a stream is built whether or not they are there.
C23_UnusablePartsAreDropped ==
    (sb # <<>> /\ src.status = 206) =>
        /\ [sb[1] EXCEPT !.position = 0] = make_sparse_body(WithoutDropped(src.parts))
        /\ Stream([sb[1] EXCEPT !.position = 0])
             = Stream(make_sparse_body(WithoutDropped(src.parts)))
        /\ \A i \in 1..Len(sb[1].start_parts) :
              sb[1].start_parts[i].kind = "Full" =>
                  \E k \in 1..Len(src.parts) :
                      ~Dropped(src.parts[k]) /\ sb[1].start_parts[i].bytes = src.parts[k].data

\* C23 witness: an unsatisfied part ahead of a part at offset 1, the stream read
\* whole: one zero byte and the data byte.
C23_Witness ==
    /\ sb # <<>> /\ src.status = 206
    /\ Len(src.parts) = 2
    /\ src.parts[1].content_range.kind = "Unsatisfied"
    /\ ~Dropped(src.parts[2])
    /\ last.op = "read_to_end" /\ last.p = 0 /\ last.buf = <<0, 2>>

\* The orders a list of n parts can arrive in.
ArrivalOrders(n) == {f \in [1..n -> 1..n] : \A i \in 1..n : \A j \in 1..n : f[i] = f[j] => i = j}

Permuted(parts, f) == [i \in 1..Len(parts) |-> parts[f[i]]]

DistinctOffsets(parts) ==
    \A i \in 1..Len(parts) : \A j \in 1..Len(parts) :
        (i < j /\ Usable(parts[i]) /\ Usable(parts[j])) => Offset(parts[i]) # Offset(parts[j])

\* C25: for parts with distinct start offsets and non-overlapping ranges the
\* stream does not depend on the order of arrival: every permutation of the input
\* gives the same total length and the same byte at every logical offset.
C25_OrderOfArrivalIsIrrelevant ==
    (/\ sb # <<>> /\ src.status = 206
     /\ DistinctOffsets(src.parts) /\ NonOverlapping(src.parts)) =>
        \A f \in ArrivalOrders(Len(src.parts)) :
            /\ make_sparse_body(Permuted(src.parts, f)).length = sb[1].length
            /\ Stream(make_sparse_body(Permuted(src.parts, f)))
                 = Stream([sb[1] EXCEPT !.position = 0])

\* C25 witness: the part at offset 2 arrives before the part at offset 0; read
\* whole, the stream is the two data bytes in offset order around a zero byte.
C25_Witness ==
    /\ sb # <<>> /\ src.status = 206
    /\ Len(src.parts) = 2
    /\ Usable(src.parts[1]) /\ Usable(src.parts[2])
    /\ Offset(src.parts[1]) = 2 /\ Offset(src.parts[2]) = 0
    /\ last.op = "read_to_end" /\ last.p = 0 /\ last.buf = <<1, 0, 3>>

\* The bytes a segment stands for, and where it ends.
SegLen(sg) == IF sg.kind = "Empty" THEN sg.len ELSE Len(sg.bytes)
SegEnd(sg) == sg.start + SegLen(sg)

\* C20: for non-overlapping parts the segment list starts at 0, is contiguous and
\* ends at total_length; it holds one data segment per usable part, at the part's
\* offset, and fillers only for the gaps: none empty, no two adjacent.
C20_SegmentsTileTheStream ==
    (sb # <<>> /\ src.status = 206 /\ NonOverlapping(src.parts)) =>
        LET segs == sb[1].start_parts
            full == {i \in 1..Len(segs) : segs[i].kind = "Full"}
            usable == {k \in 1..Len(src.parts) : Usable(src.parts[k])}
        IN  /\ sb[1].length > 0 => (Len(segs) >= 1 /\ segs[1].start = 0)
            /\ \A i \in 2..Len(segs) : segs[i].start = SegEnd(segs[i - 1])
            /\ Len(segs) >= 1 => SegEnd(segs[Len(segs)]) = sb[1].length
            /\ \A k \in usable : \E i \in full :
                  segs[i].start = Offset(src.parts[k]) /\ segs[i].bytes = src.parts[k].data
            /\ Cardinality(full) = Cardinality(usable)
            /\ \A i \in 1..Len(segs) : segs[i].kind = "Empty" =>
                  (segs[i].len > 0 /\ (i > 1 => segs[i - 1].kind = "Full"))

\* The end a seek is relative to: the body length (200), the total length (206).
StreamEnd == IF sb[1].opt = "Full" THEN Len(sb[1].bytes) ELSE sb[1].length

SeekTarget ==
    CASE last.whence = "Start" -> last.n
      [] last.whence = "Current" -> last.p + last.n
      [] OTHER -> StreamEnd + last.n

\* The bytes of the stream as first built, before any read or seek.
BuiltBytes == Stream(sparse_body(src)).bytes

\* C24: under any interleaving of reads and seeks, a read that returns k bytes
\* moves the position on by k, a read at or past the end returns no byte and
\* leaves the position; nothing but the position ever changes, and the byte read
\* at a logical offset is the byte the stream had there when it was built.
C24_ReadSeekChangeOnlyPosition ==
    sb # <<>> =>
        /\ [sb[1] EXCEPT !.position = 0] = sparse_body(src)
        /\ last.op = "read" =>
              /\ Len(last.buf) = last.ret
              /\ sb[1].position = last.p + last.ret
              /\ last.p >= StreamEnd => (last.ret = 0 /\ sb[1].position = last.p)
              /\ \A i \in 1..last.ret : last.buf[i] = BuiltBytes[last.p + i]
        /\ last.op = "seek" /\ ~last.ok => sb[1].position = last.p

\* C24 witness: a read of three bytes at position 2 of a full body of three, a
\* position only a seek or an earlier read leads to: one byte, position 3.
C24_Witness ==
    /\ sb # <<>> /\ sb[1].opt = "Full" /\ Len(sb[1].bytes) = 3
    /\ last.op = "read" /\ last.p = 2 /\ last.n = 3
    /\ last.buf = <<3>> /\ sb[1].position = 3

\* C9: a seek moves the position to n (Start), p + n (Current) or end + n (End) and
\* returns it; it fails exactly when that is negative, and then the position stays.
C9_SeekSetsPosition ==
    (sb # <<>> /\ last.op = "seek") =>
        IF SeekTarget >= 0
        THEN last.ok /\ last.ret = SeekTarget /\ sb[1].position = SeekTarget
        ELSE ~last.ok /\ sb[1].position = last.p

\* C9 witness: a seek from the end of a full body that succeeded, away from 0.
C9_Witness ==
    /\ sb # <<>> /\ sb[1].opt = "Full"
    /\ last.op = "seek" /\ last.whence = "End" /\ last.n < 0 /\ last.ok
    /\ last.p # sb[1].position /\ sb[1].position = 1

\* C10: one read of n bytes at position p of a partial stream returns
\* min(n, total_length - p) bytes, across filler and data segments, and (for
\* non-overlapping parts) they are the stream's bytes from p on.
C10_ReadFillsAcrossSegments ==
    (PartialBuilt /\ last.op = "read") =>
        /\ last.ret = Min(last.n, Max(0, sb[1].length - last.p))
        /\ Len(last.buf) = last.ret
        /\ NonOverlapping(src.parts) =>
              \A i \in 1..last.ret : last.buf[i] = ExpectedByte(src.parts, last.p + i - 1)

\* C10 witness: one read that returns filler, data and filler together.
C10_Witness ==
    /\ PartialBuilt
    /\ last.op = "read" /\ last.p = 0 /\ last.n = 3
    /\ last.buf = <<0, 2, 0>>

\* -- multipart scanner

HasBoth(shape) == shape \in {<<"T", "R">>, <<"R", "T">>, <<"X", "T", "R">>}
LacksOne(shape) == shape \in {<<"T">>, <<"R">>, <<"X", "T">>, <<"X">>, <<>>}

\* A body of k >= 1 parts, each with both headers, closed by the boundary and "--".
WellFormedBody ==
    /\ part_desc.kind = "Multi"
    /\ Len(src.parts) >= 1
    /\ \A j \in 1..Len(src.parts) : HasBoth(src.parts[j].shape)
    /\ src.ending.kind = "close"

\* The part the j-th generated part stands for.
ExpectedPart(j) == ResponsePart(TextPlain, CRBytes(j, j, 9), DataBytes(src.parts[j].dlen))

\* C3: on a well-formed multipart body of k parts the successive next() calls
\* return the k parts in body order, each with its content type, parsed
\* Content-Range and data, and None after them (and no call panics).
C3_WellFormedYieldsAllParts ==
    (ppc # "fresh" /\ WellFormedBody) =>
        /\ ppc = "ready"
        /\ \A i \in 1..Len(out) :
              IF i <= Len(src.parts) THEN out[i] = ItemOk(ExpectedPart(i))
              ELSE out[i] = ItemNone

\* C4: once a boundary followed by "--" has been met, no later next() call
\* returns an element.
C4_NothingAfterFinalBoundary ==
    (part_desc # <<>> /\ part_desc.kind = "Multi" /\ end_at >= 0) =>
        \A i \in (end_at + 1)..Len(out) : out[i] = ItemNone

\* C5: after a call has returned Err(PartParseError) every later call returns None.
C5_ErrorReportedOnce ==
    \A i \in 1..Len(out) : \A j \in 1..Len(out) :
        (i < j /\ out[i].tag = "Err") => out[j] = ItemNone

\* C19: for a Single description the first next() returns the part made of the
\* description's content type and range and the whole body, every later one None.
C19_SingleYieldsWholeBodyOnce ==
    (part_desc # <<>> /\ part_desc.kind = "Single") =>
        /\ ppc # "panicked"
        /\ \A i \in 1..Len(out) :
              out[i] = IF i = 1
                       THEN ItemOk(ResponsePart(part_desc.content_type,
                                                part_desc.content_range, body))
                       ELSE ItemNone

\* C19 witness: a Single description over a body that holds boundary lines, asked
\* three times.
C19_Witness ==
    /\ part_desc # <<>> /\ part_desc.kind = "Single"
    /\ Len(body) > 0 /\ Len(out) = 3
    /\ out[1].tag = "Ok" /\ out[1].part.data = body /\ out[3] = ItemNone

\* C21: Parts::new and every next() call return a value for every body: a
\* boundary followed by two other bytes, by fewer than two bytes, or met fewer than
\* two bytes after the previous boundary's CRLF never aborts the scan.
C21_ScanAlwaysReturns ==
    ppc # "panicked"

\* A body whose parts all parse, closed properly, so that part j is element j.
ParsingBody ==
    /\ part_desc.kind = "Multi"
    /\ \A j \in 1..Len(src.parts) : HasBoth(src.parts[j].shape) \/ LacksOne(src.parts[j].shape)
    /\ src.ending.kind \in {"close", "closeCRLF"}

\* C6: the element produced for a part that lacks Content-Type, Content-Range or
\* both is Err(PartParseError).
C6_MissingHeaderIsError ==
    (ppc # "fresh" /\ ParsingBody) =>
        /\ ppc = "ready"
        /\ \A j \in 1..Len(src.parts) :
              (LacksOne(src.parts[j].shape) /\ Len(out) >= j) => out[j] = ItemErr

====
